---- MODULE Spec2Model ----
(***************************************************************************)
(* prettyhtml: the white-space formatter (format / transform / visitor),   *)
(* the template-expression detector (isTemplateExpression) and the tag     *)
(* definition registry (getHtmlTagDefinition).                             *)
(*                                                                         *)
(* JavaScript strings that the code inspects character by character are    *)
(* sequences of one-character strings; tag names, which the code only      *)
(* compares and uses as keys, are TLA+ strings.                            *)
(***************************************************************************)
EXTENDS Integers, Sequences, FiniteSets, TLC

VARIABLES
  \* ---- registry (cli.js) ----
  TAG_DEFINITIONS,          \* Map cacheKey -> table (tagName -> descriptor)
  DEFAULT_TAG_DEFINITION,   \* _DEFAULT_TAG_DEFINITION
  nextObj,                  \* identity of the next object made by `new`
  builds,                   \* flag -> number of table constructions
  calls,                    \* record of the getHtmlTagDefinition calls made
  \* ---- template detector ----
  lastIndex,                \* lastIndex of the three global regular expressions
  tplValue,                 \* argument of the last isTemplateExpression call
  tplResult,                \* its result
  \* ---- formatter ----
  heap,                     \* the nodes: id -> node object
  settings,                 \* format(options): useTabs, tabWidth, usePrettier
  indentInitial,            \* closure variable of format()
  pc,                       \* "ready" | "visiting" | "done" | "failed"
  stack,                    \* frames of unist-util-visit-parents' all()
  visited,                  \* ids of the nodes the visitor was called on
  lastVisit,                \* what the last visitor call did
  outputs,                  \* the tree returned by each completed transform
  runs                      \* number of transform calls started

regVars == <<TAG_DEFINITIONS, DEFAULT_TAG_DEFINITION, nextObj, builds, calls>>
tplVars == <<lastIndex, tplValue, tplResult>>
fmtVars == <<heap, settings, indentInitial, pc, stack, visited, lastVisit,
             outputs, runs>>
vars == <<regVars, tplVars, fmtVars>>

(***************************************************************************)
(* Bounds of the model.                                                    *)
(***************************************************************************)
MaxCalls == 3        \* getHtmlTagDefinition calls in one behaviour
MaxTplLen == 3       \* length of the enumerated isTemplateExpression inputs
MaxNodes == 3        \* nodes below the root of an input tree
MaxNodesAll == 2     \* the same, for the trees over every kind of node
MaxRuns == 2         \* transform calls on the same tree

(***************************************************************************)
(* Strings.                                                                *)
(***************************************************************************)
LF == "\n"
TAB == "\t"
SP == " "

\* const single = '\n', double = '\n\n', space = ' '
single == <<LF>>
double == <<LF, LF>>
space == <<SP>>

\* \s of a JavaScript regular expression, over the characters used here
IsSpaceChar(c) == c \in {SP, TAB, LF}

\* repeat-string: repeat(str, num); '' when num <= 0
RECURSIVE repeat(_, _)
repeat(str, num) == IF num <= 0 THEN <<>> ELSE str \o repeat(str, num - 1)

\* s.substr(from) with a 1-based position
Tail1(s, from) == IF from > Len(s) THEN <<>> ELSE SubSeq(s, from, Len(s))

\* does `pat` occur in `s` starting at 1-based position i
MatchAt(s, pat, i) ==
  /\ i >= 1
  /\ i + Len(pat) - 1 <= Len(s)
  /\ SubSeq(s, i, i + Len(pat) - 1) = pat

\* String.prototype.indexOf(pat): 0-based position of the first occurrence, or -1
indexOf(s, pat) ==
  LET hits == {i \in 1..(Len(s) + 1) : MatchAt(s, pat, i)}
  IN IF hits = {} THEN -1
     ELSE (CHOOSE i \in hits : \A j \in hits : i <= j) - 1

\* String.prototype.toLowerCase, character by character
LowerChar(c) ==
  CASE c = "A" -> "a"
    [] c = "B" -> "b"
    [] c = "F" -> "f"
    [] c = "I" -> "i"
    [] OTHER -> c
toLowerCase(s) == [i \in 1..Len(s) |-> LowerChar(s[i])]

\* String.prototype.split('\n')
RECURSIVE splitLines(_)
splitLines(s) ==
  LET k == indexOf(s, single)
  IN IF k = -1 THEN <<s>>
     ELSE <<SubSeq(s, 1, k)>> \o splitLines(Tail1(s, k + 2))

\* Array.prototype.join('\n')
RECURSIVE joinLines(_)
joinLines(lines) ==
  IF Len(lines) = 0 THEN <<>>
  ELSE IF Len(lines) = 1 THEN lines[1]
  ELSE lines[1] \o single \o joinLines(Tail(lines))

\* removal of a leading run of characters of `cs`
RECURSIVE stripLeft(_, _)
stripLeft(s, cs) ==
  IF Len(s) > 0 /\ s[1] \in cs THEN stripLeft(Tail(s), cs) ELSE s

\* removal of a trailing run of characters of `cs`
RECURSIVE stripRight(_, _)
stripRight(s, cs) ==
  IF Len(s) > 0 /\ s[Len(s)] \in cs
  THEN stripRight(SubSeq(s, 1, Len(s) - 1), cs) ELSE s

\* String.prototype.trim
trim(s) == stripRight(stripLeft(s, {SP, TAB, LF}), {SP, TAB, LF})

\* value.replace(/^[ \t]+|[ \t]+$/g, '')
stripBlanks(s) == stripRight(stripLeft(s, {SP, TAB}), {SP, TAB})

\* value.replace(/\n/g, '$&' + ins)
RECURSIVE indentNewlines(_, _)
indentNewlines(s, ins) ==
  IF Len(s) = 0 THEN <<>>
  ELSE IF s[1] = LF THEN <<LF>> \o ins \o indentNewlines(Tail(s), ins)
  ELSE <<s[1]>> \o indentNewlines(Tail(s), ins)

\* /^\s+$/.test(value)
IsBlank(s) == Len(s) > 0 /\ \A i \in 1..Len(s) : IsSpaceChar(s[i])

(***************************************************************************)
(* The template-expression detector.                                       *)
(*                                                                         *)
(* The three regular expressions are /<open>([\s\S]*?)<close>/g.  They are *)
(* global, so RegExp.prototype.test starts at lastIndex, leaves lastIndex  *)
(* after the match when it matches and sets it to 0 when it does not.      *)
(***************************************************************************)
DOUBLE_BRACKET_INTERPOLATION_REGEXP ==
  [name |-> "double", open |-> <<"{", "{">>, close |-> <<"}", "}">>]
SINGLE_BRACKET_INTERPOLATION_REGEXP ==
  [name |-> "single", open |-> <<"{">>, close |-> <<"}">>]
ARROW_PERC_INTERPOLATION_REGEXP ==
  [name |-> "arrow", open |-> <<"<", "%">>, close |-> <<"%", ">">>]

RegexNames == {"double", "single", "arrow"}

\* 1-based positions p >= from where re matches: the opening delimiter at p
\* and the closing delimiter somewhere at or after the end of the opening one
MatchStarts(re, s, from) ==
  {p \in from..Len(s) :
     /\ MatchAt(s, re.open, p)
     /\ \E q \in (p + Len(re.open))..Len(s) : MatchAt(s, re.close, q)}

\* re.test(s) with re.lastIndex = li: [matched, lastIndex]
RegexTest(re, s, li) ==
  IF li > Len(s) THEN [matched |-> FALSE, lastIndex |-> 0]
  ELSE
    LET starts == MatchStarts(re, s, li + 1)
    IN IF starts = {} THEN [matched |-> FALSE, lastIndex |-> 0]
       ELSE
         LET p == CHOOSE x \in starts : \A y \in starts : x <= y
             \* [\s\S]*? is lazy: the first closing delimiter ends the match
             qs == {q \in (p + Len(re.open))..Len(s) : MatchAt(s, re.close, q)}
             q == CHOOSE x \in qs : \A y \in qs : x <= y
         IN [matched |-> TRUE, lastIndex |-> q + Len(re.close) - 1]

\* the three resets at the head of isTemplateExpression
ResetNone(li) == li   \* the resets left out
ResetLastIndex(li) == [n \in RegexNames |-> 0]

\* the tests of isTemplateExpression, tried in `order`, after the resets:
\* [result, lastIndex]
RECURSIVE TestInOrder(_, _, _)
TestInOrder(order, value, li) ==
  IF Len(order) = 0 THEN [result |-> FALSE, lastIndex |-> li]
  ELSE
    LET re == order[1]
        tested(t) ==
          IF t.matched
          THEN [result |-> TRUE,
                lastIndex |-> [li EXCEPT ![re.name] = t.lastIndex]]
          ELSE TestInOrder(Tail(order), value,
                           [li EXCEPT ![re.name] = t.lastIndex])
    IN tested(RegexTest(re, value, li[re.name]))

\* the order the source tries the patterns in
SourceOrder ==
  <<ARROW_PERC_INTERPOLATION_REGEXP,
    DOUBLE_BRACKET_INTERPOLATION_REGEXP,
    SINGLE_BRACKET_INTERPOLATION_REGEXP>>

\* isTemplateExpression(value) called with the regular expressions in state li
isTemplateExpressionFrom(value, li, order) ==
  TestInOrder(order, value, ResetLastIndex(li))

\* isTemplateExpression(value): the regular expressions and the record of
\* the call afterwards
isTemplateExpression(value, tpl) ==
  LET called(r) ==
        [lastIndex |-> r.lastIndex, value |-> value, result |-> r.result]
  IN called(isTemplateExpressionFrom(value, tpl.lastIndex, SourceOrder))

\* the characters of the delimiters; any of them alone is plain text
TplAlphabet == {"<", "%", ">", "{", "}"}

RECURSIVE StringsUpTo(_, _)
StringsUpTo(alphabet, n) ==
  IF n = 0 THEN {<<>>}
  ELSE LET shorter == StringsUpTo(alphabet, n - 1)
       IN shorter \cup {Append(s, c) : s \in {t \in shorter : Len(t) = n - 1},
                                        c \in alphabet}

\* '{{x}} and {y}', '{y}', 'plain' and the shortest two-character-delimiter regions
TplExamples ==
  { <<"{", "{", "x", "}", "}", " ", "a", "n", "d", " ", "{", "y", "}">>,
    <<"{", "y", "}">>,
    <<"p", "l", "a", "i", "n">>,
    <<"<", "%", "%", ">">>,
    <<"{", "{", "}", "}">>,
    <<"<", "%", "x", "%", ">">> }

TplInputs == StringsUpTo(TplAlphabet, MaxTplLen) \cup TplExamples

TplInit ==
  /\ lastIndex = [n \in RegexNames |-> 0]
  /\ tplValue = <<>>
  /\ tplResult = FALSE

\* a call isTemplateExpression(value)
IsTemplateExpressionCall ==
  /\ \E value \in TplInputs :
       LET r == isTemplateExpression(value, [lastIndex |-> lastIndex])
       IN /\ lastIndex' = r.lastIndex
          /\ tplValue' = r.value
          /\ tplResult' = r.result
  /\ UNCHANGED <<regVars, fmtVars>>

(***************************************************************************)
(* The tag definition registry.                                            *)
(***************************************************************************)
PARSABLE_DATA == "PARSABLE_DATA"
RAW_TEXT == "RAW_TEXT"
ESCAPABLE_RAW_TEXT == "ESCAPABLE_RAW_TEXT"

\* the constructor's parameter defaults
NoArgs ==
  [closedByChildren |-> <<>>, requiredParents |-> <<>>,
   implicitNamespacePrefix |-> "", contentType |-> PARSABLE_DATA,
   closedByParent |-> FALSE, isVoid |-> FALSE, ignoreFirstLf |-> FALSE]

SeqToSet(s) == {s[i] : i \in 1..Len(s)}

\* new HtmlTagDefinition(args): the fields of the object made (its identity
\* is given by the caller, see Allocate)
HtmlTagDefinition(args) ==
  [closedByChildren |-> SeqToSet(args.closedByChildren),
   isVoid |-> args.isVoid,
   closedByParent |-> (args.closedByParent \/ args.isVoid),
   requiredParents |-> SeqToSet(args.requiredParents),
   parentToAdd |-> IF Len(args.requiredParents) > 0
                   THEN args.requiredParents[1] ELSE "",
   implicitNamespacePrefix |-> args.implicitNamespacePrefix,
   contentType |-> args.contentType,
   ignoreFirstLf |-> args.ignoreFirstLf,
   canSelfClose |-> FALSE]

Void == [NoArgs EXCEPT !.isVoid = TRUE]
ClosedBy(children, byParent) ==
  [NoArgs EXCEPT !.closedByChildren = children, !.closedByParent = byParent]

RubyClosers == <<"rb", "rt", "rtc", "rp">>
PClosers ==
  <<"address", "article", "aside", "blockquote", "div", "dl", "fieldset",
    "footer", "form", "h1", "h2", "h3", "h4", "h5", "h6", "header", "hgroup",
    "hr", "main", "nav", "ol", "p", "pre", "section", "table", "ul">>

\* the object literal of TAG_DEFINITIONS.set: <<tag name, constructor argument>>
\* in source order
TableLiteral(ignoreFirstLf) ==
  << <<"base", Void>>, <<"meta", Void>>, <<"area", Void>>, <<"embed", Void>>,
     <<"link", Void>>, <<"img", Void>>, <<"input", Void>>, <<"param", Void>>,
     <<"hr", Void>>, <<"br", Void>>, <<"source", Void>>, <<"track", Void>>,
     <<"wbr", Void>>,
     <<"p", ClosedBy(PClosers, TRUE)>>,
     <<"thead", ClosedBy(<<"tbody", "tfoot">>, FALSE)>>,
     <<"tbody", ClosedBy(<<"tbody", "tfoot">>, TRUE)>>,
     <<"tfoot", ClosedBy(<<"tbody">>, TRUE)>>,
     <<"tr", [ClosedBy(<<"tr">>, TRUE)
                EXCEPT !.requiredParents = <<"tbody", "tfoot", "thead">>]>>,
     <<"td", ClosedBy(<<"td", "th">>, TRUE)>>,
     <<"th", ClosedBy(<<"td", "th">>, TRUE)>>,
     <<"col", [Void EXCEPT !.requiredParents = <<"colgroup">>]>>,
     <<"svg", [NoArgs EXCEPT !.implicitNamespacePrefix = "svg"]>>,
     <<"math", [NoArgs EXCEPT !.implicitNamespacePrefix = "math"]>>,
     <<"li", ClosedBy(<<"li">>, TRUE)>>,
     <<"dt", ClosedBy(<<"dt", "dd">>, FALSE)>>,
     <<"dd", ClosedBy(<<"dt", "dd">>, TRUE)>>,
     <<"rb", ClosedBy(RubyClosers, TRUE)>>,
     <<"rt", ClosedBy(RubyClosers, TRUE)>>,
     <<"rtc", ClosedBy(<<"rb", "rtc", "rp">>, TRUE)>>,
     <<"rp", ClosedBy(RubyClosers, TRUE)>>,
     <<"optgroup", ClosedBy(<<"optgroup">>, TRUE)>>,
     <<"option", ClosedBy(<<"option", "optgroup">>, TRUE)>>,
     <<"pre", [NoArgs EXCEPT !.ignoreFirstLf = ignoreFirstLf]>>,
     <<"listing", [NoArgs EXCEPT !.ignoreFirstLf = ignoreFirstLf]>>,
     <<"style", [NoArgs EXCEPT !.contentType = RAW_TEXT]>>,
     <<"script", [NoArgs EXCEPT !.contentType = RAW_TEXT]>>,
     <<"title", [NoArgs EXCEPT !.contentType = ESCAPABLE_RAW_TEXT]>>,
     <<"textarea", [NoArgs EXCEPT !.contentType = ESCAPABLE_RAW_TEXT,
                                  !.ignoreFirstLf = ignoreFirstLf]>> >>

\* an object: its identity and its fields
Object(id, fields) == [obj |-> id, fields |-> fields]

\* the table built on a cache miss; its objects are made after the default
\* one, in source order, so entry i is object first + i
BuildTable(ignoreFirstLf, first) ==
  LET lit == TableLiteral(ignoreFirstLf)
  IN [t \in {lit[i][1] : i \in 1..Len(lit)} |->
        LET i == CHOOSE k \in 1..Len(lit) : lit[k][1] = t
        IN Object(first + i, HtmlTagDefinition(lit[i][2]))]

\* const cacheKey = `ignoreFirstLf:${ignoreFirstLf}`
cacheKey(ignoreFirstLf) ==
  IF ignoreFirstLf THEN "ignoreFirstLf:true" ELSE "ignoreFirstLf:false"

\* the key the table is indexed with: the tag name as passed
TableKey(tagName) == tagName

\* the statement that makes the fallback object on a cache miss
DefaultOnMiss(old, fresh) == fresh

\* getHtmlTagDefinition(tagName, ignoreFirstLf): the registry afterwards and
\* the object returned
getHtmlTagDefinition(tagName, ignoreFirstLf, defs, dflt, next) ==
  LET key == cacheKey(ignoreFirstLf)
      miss == key \notin DOMAIN defs
      dflt2 == IF miss
               THEN DefaultOnMiss(dflt, Object(next, HtmlTagDefinition(NoArgs)))
               ELSE dflt
      defs2 == IF miss
               THEN [k \in DOMAIN defs \cup {key} |->
                       IF k = key THEN BuildTable(ignoreFirstLf, next)
                       ELSE defs[k]]
               ELSE defs
      next2 == IF miss
               THEN next + 1 + Len(TableLiteral(ignoreFirstLf))
               ELSE next
      table == defs2[key]
  IN [defs |-> defs2, dflt |-> dflt2, next |-> next2, built |-> miss,
      returned |-> IF TableKey(tagName) \in DOMAIN table
                   THEN table[TableKey(tagName)] ELSE dflt2]

\* the tag names of the calls: known and unknown, lower and upper case
CallTagNames == {"br", "BR", "script", "SCRIPT", "pre", "foo"}

\* String.prototype.toLowerCase on the tag names of the calls
tagToLowerCase(t) ==
  CASE t = "BR" -> "br"
    [] t = "SCRIPT" -> "script"
    [] OTHER -> t

RegInit ==
  /\ TAG_DEFINITIONS = <<>>
  /\ DEFAULT_TAG_DEFINITION = Object(0, "undefined")   \* declared, not assigned
  /\ nextObj = 1
  /\ builds = [f \in BOOLEAN |-> 0]
  /\ calls = <<>>

\* a call getHtmlTagDefinition(tagName, ignoreFirstLf)
GetHtmlTagDefinitionCall ==
  /\ Len(calls) < MaxCalls
  /\ \E tagName \in CallTagNames, ignoreFirstLf \in BOOLEAN :
       LET r == getHtmlTagDefinition(tagName, ignoreFirstLf, TAG_DEFINITIONS,
                                     DEFAULT_TAG_DEFINITION, nextObj)
       IN /\ TAG_DEFINITIONS' = r.defs
          /\ DEFAULT_TAG_DEFINITION' = r.dflt
          /\ nextObj' = r.next
          /\ builds' = IF r.built
                       THEN [builds EXCEPT ![ignoreFirstLf] = @ + 1]
                       ELSE builds
          /\ calls' = Append(calls, [tagName |-> tagName,
                                     ignoreFirstLf |-> ignoreFirstLf,
                                     returned |-> r.returned])
  /\ UNCHANGED <<tplVars, fmtVars>>

(***************************************************************************)
(* The formatter: trees.                                                   *)
(*                                                                         *)
(* A node object is heap[id].  `data` is <<>> when the node has no         *)
(* data.indentLevel and <<n>> when data.indentLevel = n.  `syn` is a       *)
(* history field: "" for a node of the input tree, and for a text node     *)
(* the pass made, the statement that made it.  `given` is a history field  *)
(* too: <<>> before a pass, and from its start <<[value, children]>> as    *)
(* the visitor found the node.                                             *)
(***************************************************************************)
Node(type, tagName, value) ==
  [type |-> type, tagName |-> tagName, value |-> value,
   children |-> <<>>, data |-> <<>>, syn |-> "", given |-> <<>>]

RootId == 1

\* html-whitespace-sensitive-tag-names
sensitive == {"pre", "script", "style", "textarea"}

\* html-void-elements
voids ==
  {"area", "base", "basefont", "bgsound", "br", "col", "command", "embed",
   "frame", "hr", "image", "img", "input", "isindex", "keygen", "link",
   "menuitem", "meta", "nextid", "param", "source", "track", "wbr"}

\* is(type, node); false for an undefined node (id 0)
is(h, type, id) == id # 0 /\ h[id].type = type

\* isElement(node) and isElement(node, tagNames)
isElement(h, id) == is(h, "element", id)
isElementOf(h, id, tagNames) == isElement(h, id) /\ h[id].tagName \in tagNames

\* the ids of the subtree of id, id included
RECURSIVE Subtree(_, _)
Subtree(h, id) ==
  {id} \cup UNION {Subtree(h, h[id].children[i]) :
                     i \in 1..Len(h[id].children)}

\* the tree below id as a value: what the serializer is handed
RECURSIVE Snapshot(_, _)
Snapshot(h, id) ==
  [type |-> h[id].type, tagName |-> h[id].tagName, value |-> h[id].value,
   data |-> h[id].data,
   children |-> [i \in 1..Len(h[id].children) |->
                   Snapshot(h, h[id].children[i])]]

\* ---- input trees ----
\* an input tree is [type, tagName, value, kids]; text and comment nodes
\* are leaves
Leaf(type, tagName, value) ==
  [type |-> type, tagName |-> tagName, value |-> value, kids |-> <<>>]

RECURSIVE TreesOfSize(_, _)
RECURSIVE ForestsOfSize(_, _)
TreesOfSize(n, fam) ==
  IF n = 1
  THEN {Leaf("element", t, <<>>) : t \in fam.tags}
       \cup {Leaf("text", "", v) : v \in fam.texts}
       \cup {Leaf("comment", "", v) : v \in fam.comments}
  ELSE {[type |-> "element", tagName |-> t, value |-> <<>>, kids |-> f] :
          t \in fam.tags, f \in ForestsOfSize(n - 1, fam)}
ForestsOfSize(n, fam) ==
  IF n = 0 THEN {<<>>}
  ELSE UNION {{<<t>> \o f : t \in TreesOfSize(k, fam),
                           f \in ForestsOfSize(n - k, fam)} : k \in 1..n}

InputTrees(fam) ==
  {[type |-> "root", tagName |-> "", value |-> <<>>, kids |-> f] :
     f \in UNION {ForestsOfSize(n, fam) : n \in 0..MaxNodes}}

\* the node objects of an input tree, in document order
RECURSIVE AddTree(_, _)
RECURSIVE AddForest(_, _)
AddTree(h, t) ==
  LET id == Len(h) + 1
      r == AddForest(Append(h, Node(t.type, t.tagName, t.value)), t.kids)
  IN [heap |-> [r.heap EXCEPT ![id].children = r.ids], id |-> id]
AddForest(h, f) ==
  IF Len(f) = 0 THEN [heap |-> h, ids |-> <<>>]
  ELSE LET a == AddTree(h, f[1])
           b == AddForest(a.heap, Tail(f))
       IN [heap |-> b.heap, ids |-> <<a.id>> \o b.ids]

\* the same tree with the unreferenced node objects dropped and the ids
\* renumbered in document order (identities carry no meaning)
RECURSIVE CopyTree(_, _, _)
RECURSIVE CopyForest(_, _, _)
CopyTree(h, old, id) ==
  LET new == Len(h) + 1
      r == CopyForest(Append(h, [old[id] EXCEPT !.children = <<>>]),
                      old, old[id].children)
  IN [heap |-> [r.heap EXCEPT ![new].children = r.ids], id |-> new]
CopyForest(h, old, ids) ==
  IF Len(ids) = 0 THEN [heap |-> h, ids |-> <<>>]
  ELSE LET a == CopyTree(h, old, ids[1])
           b == CopyForest(a.heap, old, Tail(ids))
       IN [heap |-> b.heap, ids |-> <<a.id>> \o b.ids]
Compact(h) == CopyTree(<<>>, h, RootId).heap

(***************************************************************************)
(* rehype-minify-whitespace({ newlines: true }): the white-space           *)
(* pre-normalizer transform() runs first.                                  *)
(***************************************************************************)
\* the elements white space is kept next to (phrasing content)
MinifyInline == {"span", "label", "input", "textarea", "wbr", "img"}

\* a white-space run becomes '\n' when it holds one, ' ' otherwise
RECURSIVE collapseToNewLines(_)
collapseToNewLines(s) ==
  IF Len(s) = 0 THEN <<>>
  ELSE IF IsSpaceChar(s[1])
  THEN LET rest == stripLeft(s, {SP, TAB, LF})
           run == SubSeq(s, 1, Len(s) - Len(rest))
       IN <<IF LF \in SeqToSet(run) THEN LF ELSE SP>>
          \o collapseToNewLines(rest)
  ELSE <<s[1]>> \o collapseToNewLines(Tail(s))

\* white space next to `id` may go: no such sibling, a br, or not phrasing
\* content
minifyViable(h, id) ==
  \/ id = 0
  \/ isElementOf(h, id, {"br"})
  \/ ~(is(h, "text", id) \/ isElementOf(h, id, MinifyInline))

RECURSIVE minifyChildren(_, _, _)
minifyChildren(h, parent, i) ==
  LET kids == h[parent].children
  IN IF i > Len(kids) THEN h
     ELSE
       LET id == kids[i]
           prev == IF i > 1 THEN kids[i - 1] ELSE 0
           next == IF i < Len(kids) THEN kids[i + 1] ELSE 0
       IN IF is(h, "text", id)
          THEN
            LET v == collapseToNewLines(h[id].value)
                a == IF Len(v) > 0 /\ v[1] \in {SP, LF} /\ minifyViable(h, prev)
                     THEN 2 ELSE 1
                b == IF Len(v) > 0 /\ v[Len(v)] \in {SP, LF}
                        /\ minifyViable(h, next)
                     THEN Len(v) - 1 ELSE Len(v)
                w == IF a > b THEN <<>> ELSE SubSeq(v, a, b)
            IN IF Len(w) = 0
               THEN minifyChildren(
                      [h EXCEPT ![parent].children =
                         SubSeq(kids, 1, i - 1) \o Tail1(kids, i + 1)],
                      parent, i)
               ELSE minifyChildren([h EXCEPT ![id].value = w], parent, i + 1)
          ELSE IF Len(h[id].children) > 0
                  /\ ~isElementOf(h, id, sensitive)
          THEN minifyChildren(minifyChildren(h, id, 1), parent, i + 1)
          ELSE minifyChildren(h, parent, i + 1)

minify(h) == minifyChildren(h, RootId, 1)

(***************************************************************************)
(* The formatter: format(options), transform(tree), visitor(node, parents) *)
(***************************************************************************)
\* let tabWidth = settings.tabWidth || 2
tabWidthOf(st) == IF st.tabWidth = 0 THEN 2 ELSE st.tabWidth

\* the indent of format(): '\t' with useTabs, tabWidth spaces otherwise
indentOf(st) == IF st.useTabs THEN <<TAB>> ELSE repeat(space, tabWidthOf(st))

\* let usePrettier = settings.usePrettier !== false
usePrettierOf(st) == st.usePrettier

\* isPageMode(ast): no html, body or head element in the tree
isPageMode(h) ==
  ~\E id \in Subtree(h, RootId) : isElementOf(h, id, {"html", "body", "head"})

\* the statement `if (indentInitial === false) level--`
levelOf(parents, initial) ==
  IF initial = FALSE THEN Len(parents) - 1 ELSE Len(parents)

\* setData(node, 'indentLevel', value)
setDataForgotten(h, id, value) == h   \* without `node.data = data`
setData(h, id, value) == [h EXCEPT ![id].data = <<value>>]

\* a new text node { type: 'text', value }, made by the statement `syn`
NewText(h, value, syn) ==
  Append(h, [Node("text", "", value) EXCEPT !.syn = syn])

\* endsWithNewline(node): /\s*\n\s*$/ on a non-empty text value
endsWithNewline(h, id) ==
  /\ is(h, "text", id)
  /\ Len(h[id].value) > 0
  /\ LF \in SeqToSet(SubSeq(h[id].value,
                            Len(stripRight(h[id].value, {SP, TAB, LF})) + 1,
                            Len(h[id].value)))

\* startsWithNewline(node): /^\s*\n/ on a non-empty text value
startsWithNewline(h, id) ==
  /\ is(h, "text", id)
  /\ Len(h[id].value) > 0
  /\ LF \in SeqToSet(SubSeq(h[id].value, 1,
                            Len(h[id].value)
                            - Len(stripLeft(h[id].value, {SP, TAB, LF}))))

\* containsOnlyTextNodes({ children })
containsOnlyTextNodes(h, children) ==
  /\ Len(children) > 0
  /\ \A i \in 1..Len(children) : is(h, "text", children[i])

\* containsOnlyEmptyTextNodes(node)
containsOnlyEmptyTextNodes(h, id) ==
  /\ Len(h[id].children) > 0
  /\ \A i \in 1..Len(h[id].children) :
       /\ is(h, "text", h[id].children[i])
       /\ IsBlank(h[h[id].children[i]].value)

\* isVoid(node)
isVoid(h, id) == h[id].tagName \in voids

\* ignore(nodes): one of the nodes has a white-space sensitive tag name
ignoreParentsOnly(h, nodes) ==   \* the loop stopping one short of the node
  \E i \in 1..(Len(nodes) - 1) : h[nodes[i]].tagName \in sensitive
ignore(h, nodes) == \E i \in 1..Len(nodes) : h[nodes[i]].tagName \in sensitive

\* the value isTemplateExpression is called with: child.value, which is
\* undefined (tested as the string 'undefined') for an element
testedValue(h, id) ==
  IF h[id].type \in {"text", "comment"} THEN h[id].value
  ELSE <<"u", "n", "d", "e", "f", "i", "n", "e", "d">>

\* handleTemplateExpression(child, children)
handleTemplateExpression(h, child, children, tpl) ==
  /\ isTemplateExpression(testedValue(h, child), tpl).result
  /\ ~containsOnlyTextNodes(h, children)
  /\ ~startsWithNewline(h, child)

\* beforeChildNodeAddedHook(node, children, child, index, prev); index 0-based
beforeChildNodeAddedHook(h, node, children, child, index, prev, tpl) ==
  IF handleTemplateExpression(h, child, children, tpl) THEN TRUE
  ELSE IF is(h, "comment", prev) THEN TRUE
  ELSE IF isElementOf(h, child, {"script", "style"}) /\ index # 0 THEN TRUE
  ELSE IF h[node].type = "root" /\ index = 0 THEN FALSE
  ELSE ~is(h, "text", child)

\* afterChildNodesAddedHook(node, prev); node.children is the rebuilt list
afterChildNodesAddedHookLastOnly(h, node, prev) ==   \* the first `if` left out
  Len(h[node].children) > 0 /\ ~isVoid(h, node) /\ ~is(h, "text", prev)
afterChildNodesAddedHook(h, node, prev) ==
  LET hasChilds == Len(h[node].children) > 0
  IN IF hasChilds /\ ~containsOnlyTextNodes(h, h[node].children)
        /\ ~isVoid(h, node)
     THEN TRUE
     ELSE hasChilds /\ ~isVoid(h, node) /\ ~is(h, "text", prev)

\* isElementAfterConditionalComment(node, child, index, prev)
isElementAfterConditionalComment(h, child, prev) ==
  /\ is(h, "comment", prev)
  /\ indexOf(h[prev].value, <<"i", "f">>) # -1
  /\ isElement(h, child)

\* isConCommentFollowedByComment(node, child, index, prev)
isConCommentFollowedByComment(h, child, prev) ==
  /\ is(h, "comment", prev)
  /\ indexOf(toLowerCase(h[prev].value), <<"i", "f">>) # -1
  /\ is(h, "comment", child)
  /\ indexOf(toLowerCase(h[child].value), <<"i", "f">>) = -1

\* the sentinel of the ignore directive
IgnoreMarker ==
  <<"p", "r", "e", "t", "t", "y", "h", "t", "m", "l", "-",
    "i", "g", "n", "o", "r", "e">>

\* visitor, lines 72-84: the index the traversal is to continue at (0-based,
\* one past the next element sibling), or -1 when the visitor goes on
ignoreTargetNone(h, node, parents) == -1   \* the directive not looked at
ignoreTarget(h, node, parents) ==
  IF ~(is(h, "comment", node) /\ indexOf(h[node].value, IgnoreMarker) # -1)
     \/ Len(parents) = 0
  THEN -1
  ELSE
    LET kids == h[parents[Len(parents)]].children
        at == CHOOSE i \in 1..Len(kids) : kids[i] = node
        els == {i \in at..Len(kids) : isElement(h, kids[i])}
    IN IF els = {} THEN -1
       ELSE CHOOSE i \in els : \A j \in els : i <= j

\* visitor, lines 98-104: the last line of a multi-line comment
reindentComment(h, node, level, indent) ==
  IF ~is(h, "comment", node) THEN h
  ELSE
    LET commentLines == splitLines(h[node].value)
        n == Len(commentLines)
    IN IF n > 1
       THEN [h EXCEPT ![node].value =
               joinLines([commentLines EXCEPT
                 ![n] = repeat(indent, level - 1) \o trim(commentLines[n])])]
       ELSE h

\* indentPrettierOutput(formattedText, level)
indentPrettierOutput(formattedText, level) ==
  LET lines == splitLines(formattedText)
  IN joinLines([i \in 1..Len(lines) |->
       IF Len(trim(lines[i])) > 0
       THEN repeat(<<SP, SP>>, level) \o lines[i]
       ELSE lines[i]])

\* formattedText.replace(/<\/script\s*>/g, '<\\/script>')
ScriptClose == <<"<", "/", "s", "c", "r", "i", "p", "t">>
RECURSIVE escapeScriptClose(_)
escapeScriptClose(s) ==
  IF Len(s) = 0 THEN <<>>
  ELSE IF MatchAt(s, ScriptClose, 1)
          /\ LET rest == stripLeft(Tail1(s, Len(ScriptClose) + 1), {SP, TAB, LF})
             IN Len(rest) > 0 /\ rest[1] = ">"
  THEN LET rest == stripLeft(Tail1(s, Len(ScriptClose) + 1), {SP, TAB, LF})
       IN <<"<", "\\", "/", "s", "c", "r", "i", "p", "t", ">">>
          \o escapeScriptClose(Tail(rest))
  ELSE <<s[1]>> \o escapeScriptClose(Tail(s))

\* prettierEmbeddedContent(node, level, indent, prettierOpts), given the
\* text prettier.format returns
prettierEmbeddedContent(h, node, level, indent, formatted) ==
  IF isElementOf(h, node, {"style", "script"})
  THEN
    LET indented == indentPrettierOutput(formatted, level)
        text == IF h[node].tagName = "script"
                THEN escapeScriptClose(indented) ELSE indented
        h1 == NewText(h, single, "prettier-newline")
        h2 == NewText(h1, text, "prettier-text")
        h3 == NewText(h2, repeat(indent, level - 1), "prettier-indent")
    IN [h3 EXCEPT ![node].children = <<Len(h) + 1, Len(h) + 2, Len(h) + 3>>]
  ELSE h

\* does the visitor call prettier.format on this node
callsPrettier(h, node, parents, st) ==
  /\ ignoreTarget(h, node, parents) = -1
  /\ ignore(h, Append(parents, node))
  /\ Len(h[node].children) > 0
  /\ usePrettierOf(st)
  /\ ~containsOnlyEmptyTextNodes(h, node)
  /\ isElementOf(h, node, {"style", "script"})

\* visitor, lines 111-126: a white-space sensitive node
visitSensitive(h, node, level, indent, st, formatted) ==
  LET h1 == setData(h, node, level - 1)
      empty == containsOnlyEmptyTextNodes(h1, node)
  IN IF Len(h[node].children) > 0
     THEN LET h2 == IF empty THEN [h1 EXCEPT ![node].children = <<>>] ELSE h1
          IN IF usePrettierOf(st) /\ ~empty
             THEN prettierEmbeddedContent(h2, node, level, indent, formatted)
             ELSE h2
     ELSE h1

\* visitor, lines 137-160: has a text child a linefeed
sawNewline(h, node) ==
  /\ h[node].type # "root"
  /\ \E i \in 1..Len(h[node].children) :
       /\ is(h, "text", h[node].children[i])
       /\ indexOf(h[h[node].children[i]].value, single) # -1

\* visitor, lines 137-160: the text children trimmed and their lines indented
RECURSIVE indentText(_, _, _, _, _)
indentText(h, node, i, level, indent) ==
  IF h[node].type = "root" \/ i > Len(h[node].children) THEN h
  ELSE
    LET child == h[node].children[i]
    IN IF is(h, "text", child)
       THEN indentText(
              [h EXCEPT ![child].value =
                 indentNewlines(stripBlanks(h[child].value),
                                repeat(indent, level))],
              node, i + 1, level, indent)
       ELSE indentText(h, node, i + 1, level, indent)

\* the condition of lines 186-189: two linefeeds go before child
doubleBefore(h, child, prev) ==
  \/ isElementAfterConditionalComment(h, child, prev)
  \/ isConCommentFollowedByComment(h, child, prev)

\* the condition of lines 201-209: one linefeed goes before child
singleBefore(h, node, children, i, prev, newline, tpl) ==
  \/ /\ ~endsWithNewline(h, prev)
     /\ beforeChildNodeAddedHook(h, node, children, children[i], i - 1, prev,
                                 tpl)
  \/ (newline /\ i - 1 = 0)

\* lines 186-215: which separator goes before child i (1-based) of
\* `children`: "double", "single" or "" for none
separatorBefore(h, node, children, i, prev, newline, tpl) ==
  IF doubleBefore(h, children[i], prev) THEN "double"
  ELSE IF singleBefore(h, node, children, i, prev, newline, tpl) THEN "single"
  ELSE ""

\* lines 186-210 call isTemplateExpression(child.value) unless the first
\* condition holds or the previous child ends with a linefeed
separatorTpl(h, child, prev, tpl) ==
  IF doubleBefore(h, child, prev) \/ endsWithNewline(h, prev) THEN tpl
  ELSE isTemplateExpression(testedValue(h, child), tpl)

\* visitor, lines 170-221: the walk through the children that fills `result`
RECURSIVE rebuild(_, _, _, _, _, _, _, _, _, _)
rebuild(h, node, children, i, prev, result, level, indent, newline, tpl) ==
  IF i > Len(children)
  THEN [heap |-> h, result |-> result, prev |-> prev, tpl |-> tpl]
  ELSE
    LET child == children[i]
        \* h1: the heap after setData(child); sep: the separator pushed
        push(h1, sep) ==
          LET h2 == IF sep = "double"
                    THEN NewText(h1, double \o repeat(indent, level), "double")
                    ELSE IF sep = "single"
                    THEN NewText(h1, single \o repeat(indent, level), "single")
                    ELSE h1
              result2 == IF sep = "" THEN Append(result, child)
                         ELSE result \o <<Len(h1) + 1, child>>
          IN rebuild([h2 EXCEPT ![node].children = result2], node, children,
                     i + 1, child, result2, level, indent, newline,
                     separatorTpl(h1, child, prev, tpl))
    IN push(setData(h, child, level),
            separatorBefore(setData(h, child, level), node, children, i, prev,
                            newline, tpl))

\* the condition of line 225: is a closing break appended
closingBreakOnNewline(h, node, prev, newline) == newline   \* the hook left out
closingBreak(h, node, prev, newline) ==
  afterChildNodesAddedHook(h, node, prev) \/ newline

\* visitor, lines 137-230: a node that is not white-space sensitive
visitPlain(h, node, level, indent, tpl) ==
  LET children == h[node].children
      \* newline: the flag of line 151; r: what the rebuild left
      close(newline, r) ==
        [heap |->
           IF closingBreak(r.heap, node, r.prev, newline)
           THEN [NewText(r.heap, single \o repeat(indent, level - 1),
                         "closing")
                   EXCEPT ![node].children = Append(r.result, Len(r.heap) + 1)]
           ELSE r.heap,
         tpl |-> r.tpl]
      walk(newline) ==
        close(newline,
              rebuild([indentText(h, node, 1, level, indent)
                         EXCEPT ![node].children = <<>>],
                      node, children, 1, 0, <<>>, level, indent, newline, tpl))
  IN walk(sawNewline(h, node))

\* visitor(node, parents): the heap afterwards, what it returns ("index" with
\* the 0-based index to continue at, "skip" for visit.SKIP, "" for undefined)
\* and which of its paths it took
visitor(h, node, parents, st, initial, formatted, tpl) ==
  LET level == levelOf(parents, initial)
      indent == indentOf(st)
      plain(r) ==
        [heap |-> r.heap, ret |-> "", index |-> 0, path |-> "plain",
         tpl |-> r.tpl]
      \* target: where the ignore directive sends the traversal; h1: the
      \* heap after the comment re-indentation
      visit(target, h1) ==
        IF target # -1
        THEN [heap |-> h, ret |-> "index", index |-> target,
              path |-> "ignore", tpl |-> tpl]
        ELSE IF ignore(h1, Append(parents, node))
        THEN [heap |-> visitSensitive(h1, node, level, indent, st, formatted),
              ret |-> "skip", index |-> 0, path |-> "sensitive", tpl |-> tpl]
        ELSE plain(visitPlain(h1, node, level, indent, tpl))
  IN visit(ignoreTarget(h, node, parents),
           reindentComment(h, node, level, indent))

(***************************************************************************)
(* prettier.format: an external formatter.  It returns some text or        *)
(* throws; which text is not decided by this code.                         *)
(***************************************************************************)
PrettierTexts ==
  { <<"x", LF>>,
    <<"a", LF, LF, SP, "b", LF>>,
    ScriptClose \o <<SP, ">", LF>> }

PrettierResults ==
  {[ok |-> TRUE, text |-> t] : t \in PrettierTexts}
  \cup {[ok |-> FALSE, text |-> <<>>]}

NotCalled == [ok |-> TRUE, text |-> <<>>]

(***************************************************************************)
(* The traversal of unist-util-visit-parents: visit(root, visitor).        *)
(* A frame is one activation of all(children, parents): the node whose     *)
(* children are walked and the (1-based) index of the next child.  The     *)
(* bottom frame, node 0, stands for one(tree, null, []).                   *)
(***************************************************************************)
frameChildren(h, frame) ==
  IF frame.node = 0 THEN <<RootId>> ELSE h[frame.node].children

\* the frames whose loop has ended are left
RECURSIVE unwind(_, _)
unwind(h, s) ==
  IF Len(s) = 0 THEN s
  ELSE IF s[Len(s)].index > Len(frameChildren(h, s[Len(s)]))
  THEN unwind(h, SubSeq(s, 1, Len(s) - 1))
  ELSE s

\* the node the visitor is called on next, and its ancestors
currentNode == frameChildren(heap, stack[Len(stack)])[stack[Len(stack)].index]
currentParents == [i \in 1..(Len(stack) - 1) |-> stack[i + 1].node]

\* the frames after the visitor returned `r` for `node`: the index of a
\* numeric result is where the loop goes on, and the children of the node
\* are walked unless the result is SKIP or the node has no children property
afterVisit(h, s, node, r) ==
  LET top == s[Len(s)]
      moved == [s EXCEPT ![Len(s)].index =
                  IF r.ret = "index" THEN r.index + 1 ELSE top.index + 1]
  IN unwind(h, IF r.path = "plain"
               THEN Append(moved, [node |-> node, index |-> 1])
               ELSE moved)

NoVisit ==
  [node |-> 0, path |-> "", level |-> 0, parents |-> <<>>,
   before |-> <<>>, newline |-> FALSE]

ClearSyn(h) == [i \in 1..Len(h) |-> [h[i] EXCEPT !.syn = ""]]

\* the history field `given` of every node, at the start of visit()
Given(h) ==
  [i \in 1..Len(h) |->
     [h[i] EXCEPT !.given = <<[value |-> h[i].value,
                               children |-> h[i].children]>>]]

\* transform(tree) up to the first visitor call: page mode, the white-space
\* pre-normalizer, and the start of visit(root, visitor)
Start ==
  /\ indentInitial' = isPageMode(heap)
  /\ heap' = Given(Compact(ClearSyn(minify(heap))))
  /\ stack' = <<[node |-> 0, index |-> 1]>>
  /\ pc' = "visiting"
  /\ visited' = {}
  /\ lastVisit' = NoVisit
  /\ runs' = runs + 1
  /\ UNCHANGED <<settings, outputs, regVars, tplVars>>

\* transform(tree) is called on an input tree
Transform == pc = "ready" /\ Start

\* transform(tree) is called on the tree an earlier call returned
TransformAgain == pc = "done" /\ runs < MaxRuns /\ Start

\* one call of visitor(node, parents) by the traversal; after the last one
\* transform returns the root
Visit ==
  /\ pc = "visiting"
  /\ LET node == currentNode
         parents == currentParents
     IN \E res \in (IF callsPrettier(heap, node, parents, settings)
                    THEN PrettierResults ELSE {NotCalled}) :
        \E r \in {visitor(heap, node, parents, settings, indentInitial,
                           res.text,
                           [lastIndex |-> lastIndex, value |-> tplValue,
                            result |-> tplResult])} :
        \E s2 \in {afterVisit(r.heap, stack, node, r)} :
             /\ visited' = visited \cup {node}
             /\ lastVisit' = [node |-> node, path |-> r.path,
                              level |-> levelOf(parents, indentInitial),
                              parents |-> parents,
                              before |-> heap[node].children,
                              newline |-> sawNewline(heap, node)]
             /\ lastIndex' = r.tpl.lastIndex
             /\ tplValue' = r.tpl.value
             /\ tplResult' = r.tpl.result
             /\ IF res.ok
                THEN /\ heap' = r.heap
                     /\ stack' = s2
                     /\ pc' = IF Len(s2) = 0 THEN "done" ELSE "visiting"
                     /\ outputs' = IF Len(s2) = 0
                                   THEN Append(outputs, Snapshot(r.heap, RootId))
                                   ELSE outputs
                ELSE \* prettier.format throws after node.children = []
                     /\ heap' = [setData(heap, node,
                                   levelOf(parents, indentInitial) - 1)
                                 EXCEPT ![node].children = <<>>]
                     /\ stack' = stack
                     /\ pc' = "failed"
                     /\ outputs' = outputs
  /\ UNCHANGED <<settings, indentInitial, runs, regVars>>

\* ---- the options and the input trees ----
\* format(options): tabWidth 0 stands for an option that is not given
DefaultSettings == [useTabs |-> FALSE, tabWidth |-> 0, usePrettier |-> TRUE]

Txt(v) == Leaf("text", "", v)
Cmt(v) == Leaf("comment", "", v)
El(t, kids) == [type |-> "element", tagName |-> t, value |-> <<>>, kids |-> kids]
Doc(kids) == [type |-> "root", tagName |-> "", value |-> <<>>, kids |-> kids]

tA == <<"A">>
tB == <<"B">>
tLines == <<"a", LF, "b">>
tBlank == <<SP>>
tPadded == <<SP, "b", SP>>
tTemplate == <<"{", "{", "x", "}", "}">>
cPlain == <<"c">>
cIf == <<"[", "i", "f", "]">>
cIF == <<"[", "I", "F", "]">>
cLines == <<"x", LF, SP, SP, SP, "y", SP>>
cIgnore == IgnoreMarker
cIgnoreLines == IgnoreMarker \o <<LF, SP, SP, SP, "z", SP>>

\* the scenarios of the specification and of the source's comments
\* <div><p>A</p><p>B</p></div>
DivWithTwoParagraphs ==
  Doc(<<El("div", <<El("p", <<Txt(tA)>>), El("p", <<Txt(tB)>>)>>)>>)
\* <label><input/>foo</label>
LabelWithInput == Doc(<<El("label", <<El("input", <<>>), Txt(tA)>>)>>)
\* <!--[if IE]--> followed by an element
ConditionalComment == Doc(<<Cmt(cIf), El("div", <<>>)>>)
\* <pre>  foo\n   bar</pre>
PreWithLines == Doc(<<El("pre", <<Txt(<<SP, SP, "a", LF, SP, SP, SP, "b">>)>>)>>)

Scenarios ==
  {DivWithTwoParagraphs, LabelWithInput, ConditionalComment, PreWithLines}

FmtIdle ==
  /\ heap = <<Node("root", "", <<>>)>>
  /\ settings = DefaultSettings
  /\ indentInitial = TRUE
  /\ pc = "idle"
  /\ stack = <<>>
  /\ visited = {}
  /\ lastVisit = NoVisit
  /\ outputs = <<>>
  /\ runs = 0

\* format(options) was called with one of `sts` and transform is about to
\* be called on one of `trees`
FmtInit(trees, sts) ==
  /\ \E t \in trees : heap = AddTree(<<>>, t).heap
  /\ settings \in sts
  /\ indentInitial = TRUE   \* settings.indentInitial; transform overwrites it
  /\ pc = "ready"
  /\ stack = <<>>
  /\ visited = {}
  /\ lastVisit = NoVisit
  /\ outputs = <<>>
  /\ runs = 0

FmtNext == Transform \/ Visit
FmtNextAgain == Transform \/ TransformAgain \/ Visit

\* ---- the specifications ----
\* the registry alone
InitIdle == RegInit /\ TplInit /\ FmtIdle
SpecRegistry == InitIdle /\ [][GetHtmlTagDefinitionCall]_vars

\* the template-expression detector alone
SpecTemplate == InitIdle /\ [][IsTemplateExpressionCall]_vars

\* the formatter on block, inline and void elements with text
FamilyElements ==
  [tags |-> {"div", "span", "br"}, texts |-> {tA, tLines}, comments |-> {}]
InitElements ==
  RegInit /\ TplInit
  /\ FmtInit(InputTrees(FamilyElements) \cup Scenarios, {DefaultSettings})
SpecElements == InitElements /\ [][FmtNext]_vars

\* the formatter run again on its own output
FamilyInline ==
  [tags |-> {"div", "span"}, texts |-> {tA, tPadded}, comments |-> {}]
InitAgain ==
  RegInit /\ TplInit
  /\ FmtInit(InputTrees(FamilyInline) \cup Scenarios, {DefaultSettings})
SpecAgain == InitAgain /\ [][FmtNextAgain]_vars

\* the formatter on white-space sensitive elements, with and without
\* embedded-content formatting
FamilySensitive ==
  [tags |-> {"div", "pre", "script"}, texts |-> {tA, tBlank}, comments |-> {}]
SensitiveScenarios ==
  { PreWithLines,
    Doc(<<El("style", <<Txt(tA)>>)>>),
    Doc(<<El("textarea", <<Txt(tLines)>>)>>),
    Doc(<<El("div", <<El("textarea", <<El("div", <<>>)>>)>>)>>) }
InitSensitive ==
  RegInit /\ TplInit
  /\ FmtInit(InputTrees(FamilySensitive) \cup SensitiveScenarios,
             {DefaultSettings, [DefaultSettings EXCEPT !.usePrettier = FALSE]})
SpecSensitive == InitSensitive /\ [][FmtNext]_vars

\* the formatter on comments: conditional, plain and the ignore directive
FamilyComments ==
  [tags |-> {"div"}, texts |-> {tA},
   comments |-> {cPlain, cIf, cIF, cIgnore}]
InitComments ==
  RegInit /\ TplInit
  /\ FmtInit(InputTrees(FamilyComments) \cup Scenarios, {DefaultSettings})
SpecComments == InitComments /\ [][FmtNext]_vars

\* the formatter on every kind of node, under every option
FamilyAll ==
  [tags |-> {"html", "div", "br", "pre", "script"},
   texts |-> {tA, tLines, tTemplate},
   comments |-> {cIf, cLines, cIgnore}]
\* <!-- prettyhtml-ignore --> before an element with content, and
\* siblings after it
IgnoreScenarios ==
  { Doc(<<Cmt(cIgnore), El("div", <<El("p", <<Txt(tPadded)>>)>>),
          El("div", <<El("p", <<>>)>>)>>),
    Doc(<<El("div", <<Cmt(cIgnoreLines), Txt(tA), El("span", <<Txt(tLines)>>),
                      Cmt(cPlain)>>)>>) }
InputTreesAll ==
  {[type |-> "root", tagName |-> "", value |-> <<>>, kids |-> f] :
     f \in UNION {ForestsOfSize(n, FamilyAll) : n \in 0..MaxNodesAll}}
Init ==
  RegInit /\ TplInit
  /\ FmtInit(InputTreesAll \cup Scenarios \cup SensitiveScenarios
             \cup IgnoreScenarios,
             {DefaultSettings, [DefaultSettings EXCEPT !.useTabs = TRUE]})
Next == Transform \/ Visit
Spec == Init /\ [][Next]_vars

(***************************************************************************)
(* The claims.                                                             *)
(***************************************************************************)
Reachable == Subtree(heap, RootId)
Kids(id) == heap[id].children
HasData(id) == heap[id].data # <<>>
Synthetic(id) == heap[id].syn # ""

\* the 1-based position of id in a list of ids, 0 when it is not there
PositionOf(ids, id) ==
  IF \E i \in 1..Len(ids) : ids[i] = id
  THEN CHOOSE i \in 1..Len(ids) : ids[i] = id ELSE 0

\* the nodes that are, or lie below, a white-space sensitive element
SensitiveScope ==
  UNION {Subtree(heap, s) : s \in {x \in Reachable : heap[x].tagName \in sensitive}}

\* C1: no void element ever has a closing-break text node (the linefeed and
\* indent of line 226) as its last child, whatever its children are.
C1_VoidNeverGetsClosingBreak ==
  \A id \in Reachable :
    (isElement(heap, id) /\ isVoid(heap, id) /\ Len(Kids(id)) > 0)
      => heap[Kids(id)[Len(Kids(id))]].syn # "closing"

\* C2 as stated: no node in the scope of a white-space sensitive element
\* ever has a text node made by the pass among its children, under every
\* option setting.
C2_NoSyntheticTextUnderSensitive ==
  \A id \in SensitiveScope :
    \A i \in 1..Len(Kids(id)) : ~Synthetic(Kids(id)[i])

\* C2 as amended: a node in the scope of a white-space sensitive element has
\* no text node made by the pass among its children, except a script or
\* style element under embedded-content formatting, whose children are the
\* three text nodes of prettierEmbeddedContent; a pre or textarea element
\* never has one, and nothing has one when usePrettier is false.
C2_NoSyntheticTextUnlessEmbeddedFormatting ==
  \A id \in SensitiveScope :
    \/ \A i \in 1..Len(Kids(id)) : ~Synthetic(Kids(id)[i])
    \/ /\ settings.usePrettier
       /\ isElementOf(heap, id, {"script", "style"})
       /\ [i \in 1..Len(Kids(id)) |-> heap[Kids(id)[i]].syn]
            = <<"prettier-newline", "prettier-text", "prettier-indent">>

\* C2 witness: the pass is over and it visited a sensitive element with real
\* content that it left alone: any of them without embedded-content
\* formatting, or a pre or textarea with it.
C2_SensitiveContentVisited ==
  /\ pc = "done"
  /\ \E id \in visited :
       /\ isElementOf(heap, id, sensitive)
       /\ Len(Kids(id)) > 0
       /\ ~containsOnlyEmptyTextNodes(heap, id)
       /\ (~settings.usePrettier \/ heap[id].tagName \in {"pre", "textarea"})
  /\ \E id \in visited :
       isElementOf(heap, id, sensitive) /\ LF \in UNION
         {SeqToSet(heap[Kids(id)[i]].value) : i \in 1..Len(Kids(id))}

\* C3: formatting the tree a first transform returned gives the same tree:
\* the same children lists, values and indentLevel annotations.
C3_SecondRunChangesNothing ==
  Len(outputs) >= 2 => outputs[2] = outputs[1]

\* C4: calls of getHtmlTagDefinition with the same tag name and the same
\* flag return the same object, and the table of a flag is built at most
\* once.
C4_SameArgumentsSameObject ==
  /\ \A i, j \in 1..Len(calls) :
       (calls[i].tagName = calls[j].tagName
        /\ calls[i].ignoreFirstLf = calls[j].ignoreFirstLf)
         => calls[i].returned.obj = calls[j].returned.obj
  /\ \A f \in BOOLEAN : builds[f] <= 1

\* C5: getHtmlTagDefinition(t, f) returns a descriptor with the field
\* values of the one getHtmlTagDefinition(lowercase(t), f) returns.
C5_LookupIgnoresCase ==
  \A i \in 1..Len(calls) :
    calls[i].returned.fields =
      getHtmlTagDefinition(tagToLowerCase(calls[i].tagName),
                           calls[i].ignoreFirstLf, TAG_DEFINITIONS,
                           DEFAULT_TAG_DEFINITION, nextObj).returned.fields

\* C6: every indentLevel annotation is an integer >= 0.
C6_IndentLevelNotNegative ==
  \A id \in 1..Len(heap) : HasData(id) => heap[id].data[1] >= 0

IsBreak(id, n) ==
  /\ is(heap, "text", id)
  /\ Synthetic(id)
  /\ heap[id].value = <<LF>> \o [i \in 1..(2 * n) |-> SP]

\* the children the last visitor call found are all elements that are
\* neither void nor white-space sensitive
ElementsOnly(before) ==
  /\ Len(before) > 0
  /\ \A i \in 1..Len(before) :
       /\ isElement(heap, before[i])
       /\ heap[before[i]].tagName \notin (voids \cup sensitive)

\* the rebuilt list: a break at level L before each child, one at level
\* L - 1 after the last
BreaksAround(before, kids, L) ==
  /\ Len(kids) = 2 * Len(before) + 1
  /\ \A i \in 1..Len(before) :
       kids[2 * i] = before[i] /\ IsBreak(kids[2 * i - 1], L)
  /\ IsBreak(kids[Len(kids)], L - 1)

\* the children the last visitor call found are one text node without a
\* linefeed, and they are the children still
LoneTextKept(before, kids, newline) ==
  (Len(before) = 1 /\ is(heap, "text", before[1]) /\ ~newline)
    => kids = before

\* C8 as stated: with the 2-space indent and no html, head or body element,
\* the visitor leaves an element with L ancestors whose children are all
\* non-void, non-sensitive elements with a break before each child and
\* one after the last, and an element whose only child is a text node
\* without a linefeed with that child alone.
C8_BreaksAroundElementChildren ==
  LET v == lastVisit
  IN (v.path = "plain" /\ isElement(heap, v.node) /\ indentInitial
      /\ settings = DefaultSettings)
       => /\ ElementsOnly(v.before)
               => BreaksAround(v.before, Kids(v.node), Len(v.parents))
          /\ LoneTextKept(v.before, Kids(v.node), v.newline)

\* C8 as amended: the same, for an element that is not void itself.
C8_BreaksAroundChildrenOfNonVoid ==
  LET v == lastVisit
  IN (v.path = "plain" /\ isElement(heap, v.node) /\ indentInitial
      /\ settings = DefaultSettings)
       => /\ (ElementsOnly(v.before) /\ ~isVoid(heap, v.node))
               => BreaksAround(v.before, Kids(v.node), Len(v.parents))
          /\ LoneTextKept(v.before, Kids(v.node), v.newline)

\* C8 witness: the visitor has just rebuilt the children of the top-level
\* div of <div><p>A</p><p>B</p></div>: ['\n  ', p, '\n  ', p, '\n'].
C8_DivWithTwoParagraphsRebuilt ==
  /\ lastVisit.path = "plain"
  /\ isElementOf(heap, lastVisit.node, {"div"})
  /\ lastVisit.parents = <<RootId>>
  /\ Len(lastVisit.before) = 2
  /\ \A i \in 1..2 :
       /\ isElementOf(heap, lastVisit.before[i], {"p"})
       /\ Len(Kids(lastVisit.before[i])) = 1
  /\ [i \in 1..Len(Kids(lastVisit.node)) |-> heap[Kids(lastVisit.node)[i]].value]
       = << <<LF, SP, SP>>, <<>>, <<LF, SP, SP>>, <<>>, <<LF>> >>

\* every region s has for the delimiters of re: the opening one, then
\* anything, then the closing one
HasRegion(s, re) ==
  \E i, j \in 1..Len(s) :
    /\ MatchAt(s, re.open, i)
    /\ MatchAt(s, re.close, j)
    /\ j >= i + Len(re.open)

HasSomeRegion(s) ==
  \/ HasRegion(s, ARROW_PERC_INTERPOLATION_REGEXP)
  \/ HasRegion(s, DOUBLE_BRACKET_INTERPOLATION_REGEXP)
  \/ HasRegion(s, SINGLE_BRACKET_INTERPOLATION_REGEXP)

AllOrders ==
  {o \in [1..3 -> {ARROW_PERC_INTERPOLATION_REGEXP,
                   DOUBLE_BRACKET_INTERPOLATION_REGEXP,
                   SINGLE_BRACKET_INTERPOLATION_REGEXP}] :
     \A i, j \in 1..3 : i # j => o[i] # o[j]}

\* C9: the result of the last isTemplateExpression call is true exactly
\* when its argument has a '<% %>', '{{ }}' or '{ }' region, whatever was
\* tested before; a further call on the same text, with the patterns tried
\* in any order, gives the same result; '{{x}} and {y}' and '{y}' are
\* template expressions and 'plain' is not.
C9_TrueExactlyOnARegion ==
  /\ tplResult = HasSomeRegion(tplValue)
  /\ \A order \in AllOrders :
       isTemplateExpressionFrom(tplValue, lastIndex, order).result = tplResult
  /\ tplValue \in {<<"{", "{", "x", "}", "}", " ", "a", "n", "d", " ",
                     "{", "y", "}">>, <<"{", "y", "}">>} => tplResult
  /\ tplValue = <<"p", "l", "a", "i", "n">> => ~tplResult

\* C9 witness: '{{x}} and {y}' was just tested and found a template
\* expression by the double-brace pattern, which stopped after '{{x}}'.
C9_DoubleBraceTested ==
  /\ tplValue = <<"{", "{", "x", "}", "}", " ", "a", "n", "d", " ",
                  "{", "y", "}">>
  /\ tplResult
  /\ lastIndex = [n \in RegexNames |-> IF n = "double" THEN 5 ELSE 0]

\* is the text of the comment id conditional-style: does it hold 'if'
HoldsIf(value) == \E i \in 1..Len(value) : MatchAt(value, <<"i", "f">>, i)

\* exactly one node lies between prev and child in kids, a text node of two
\* linefeeds and `level` indent units
DoubleBreakBetween(kids, prev, child, level) ==
  LET p == PositionOf(kids, prev)
      c == PositionOf(kids, child)
  IN /\ p > 0
     /\ c = p + 2
     /\ is(heap, "text", kids[p + 1])
     /\ Synthetic(kids[p + 1])
     /\ heap[kids[p + 1]].value
          = <<LF, LF>> \o [i \in 1..(Len(indentOf(settings)) * level) |->
                             IF settings.useTabs THEN TAB ELSE SP]

\* C10: when the visitor has rebuilt a children list, a comment
\* holding 'if' that was directly followed by an element, or by a comment
\* not holding 'if', is separated from it by exactly one text node, of two
\* linefeeds and the indent of the level.
C10_DoubleBreakAfterConditionalComment ==
  LET v == lastVisit
  IN v.path = "plain" =>
       \A i \in 2..Len(v.before) :
         LET prev == v.before[i - 1]
             child == v.before[i]
         IN (/\ is(heap, "comment", prev)
             /\ HoldsIf(heap[prev].value)
             /\ \/ isElement(heap, child)
                \/ is(heap, "comment", child) /\ ~HoldsIf(heap[child].value))
              => DoubleBreakBetween(Kids(v.node), prev, child, v.level)

\* the last visitor call appended a closing text node: the last child is a
\* text node the statement of line 226 made, a linefeed and level - 1 indent
\* units
ClosingAppended(v) ==
  /\ Len(Kids(v.node)) > 0
  /\ LET last == Kids(v.node)[Len(Kids(v.node))]
     IN /\ heap[last].syn = "closing"
        /\ heap[last].value
             = <<LF>> \o [i \in 1..(Len(indentOf(settings)) * (v.level - 1)) |->
                            IF settings.useTabs THEN TAB ELSE SP]

\* no text node made by line 226 is anywhere among the children
NoClosing(v) ==
  \A i \in 1..Len(Kids(v.node)) : heap[Kids(v.node)[i]].syn # "closing"

SomeChildNotText(v) ==
  \E i \in 1..Len(v.before) : ~is(heap, "text", v.before[i])

LastChildNotText(v) ==
  Len(v.before) > 0 /\ ~is(heap, "text", v.before[Len(v.before)])

\* C11 as stated: a visitor call on a non-sensitive node appends the closing
\* text node exactly when the node has children, not all of them text, is
\* not void and its last child is not a text node, or a text child held a
\* linefeed.
C11_ClosingBreakWhenLastChildNotText ==
  LET v == lastVisit
  IN v.path = "plain" =>
       IF \/ /\ SomeChildNotText(v)
             /\ ~isVoid(heap, v.node)
             /\ LastChildNotText(v)
          \/ v.newline
       THEN ClosingAppended(v) ELSE NoClosing(v)

\* C11 as amended: a visitor call on a non-sensitive node appends the
\* closing text node exactly when the node has children, not all of them
\* text, and is not void (whatever its last child is), or a text child held
\* a linefeed.
C11_ClosingBreakWhenSomeChildNotText ==
  LET v == lastVisit
  IN v.path = "plain" =>
       IF (SomeChildNotText(v) /\ ~isVoid(heap, v.node)) \/ v.newline
       THEN ClosingAppended(v) ELSE NoClosing(v)

\* C11 witness: the visitor has just rebuilt the label of
\* <label><input/>A</label>, whose last child is a text without a linefeed,
\* and appended the closing text node.
C11_LabelWithInputClosed ==
  /\ lastVisit.path = "plain"
  /\ isElementOf(heap, lastVisit.node, {"label"})
  /\ Len(lastVisit.before) = 2
  /\ isElementOf(heap, lastVisit.before[1], {"input"})
  /\ is(heap, "text", lastVisit.before[2])
  /\ ~lastVisit.newline
  /\ ClosingAppended(lastVisit)

\* the node is as the visitor pass found it: its value and its children list
Unchanged(id) ==
  heap[id].given = <<[value |-> heap[id].value, children |-> heap[id].children]>>

\* the visited comments that hold the marker of the ignore directive
MarkerComments ==
  {c \in visited : /\ is(heap, "comment", c)
                   /\ indexOf(heap[c].value, IgnoreMarker) # -1}

ParentOf(id) == CHOOSE p \in Reachable : PositionOf(Kids(p), id) > 0

\* the positions, among the children of its parent, of the elements after
\* the comment c
ElementsAfter(c) ==
  {i \in (PositionOf(Kids(ParentOf(c)), c) + 1)..Len(Kids(ParentOf(c))) :
     isElement(heap, Kids(ParentOf(c))[i])}

\* the elements that are the first element sibling after a marker comment
FirstElementsAfterMarker ==
  {Kids(ParentOf(c))[CHOOSE i \in ElementsAfter(c) :
                       \A j \in ElementsAfter(c) : i <= j] :
     c \in {m \in MarkerComments : ElementsAfter(m) # {}}}

\* the elements that directly follow a marker comment in the children list
\* the visitor found
ElementsNextToMarker ==
  {e \in Reachable :
     /\ isElement(heap, e)
     /\ \E c \in MarkerComments :
          LET was == heap[ParentOf(c)].given[1].children
          IN /\ PositionOf(was, c) > 0
             /\ PositionOf(was, c) < Len(was)
             /\ was[PositionOf(was, c) + 1] = e}

\* the elements the traversal never called the visitor on, those below a
\* white-space sensitive element or below another such element left aside
SkippedElements ==
  {e \in Reachable \ {RootId} :
     /\ isElement(heap, e)
     /\ e \notin visited
     /\ ParentOf(e) \in visited
     /\ ~isElementOf(heap, ParentOf(e), sensitive)}

RECURSIVE Depth(_)
Depth(id) == IF id = RootId THEN 0 ELSE 1 + Depth(ParentOf(id))

\* the 1-based position of the last linefeed of s, 0 when it has none
LastLinefeed(s) ==
  IF \E i \in 1..Len(s) : s[i] = LF
  THEN CHOOSE i \in 1..Len(s) : s[i] = LF /\ \A j \in (i + 1)..Len(s) : s[j] # LF
  ELSE 0

\* the comment text `was` with its last line trimmed and put behind n indent
\* units, the lines before it as they were
LastLineIndented(was, n) ==
  SubSeq(was, 1, LastLinefeed(was))
  \o [i \in 1..(Len(indentOf(settings)) * n) |->
        IF settings.useTabs THEN TAB ELSE SP]
  \o trim(SubSeq(was, LastLinefeed(was) + 1, Len(was)))

\* C13: when the pass is over, every visited comment of more than one line,
\* with the marker of the ignore directive or without, has its last line
\* trimmed and indented by level - 1 units and its other lines as they were.
C13_LastLineOfCommentIndented ==
  pc = "done" =>
    \A c \in visited :
      (is(heap, "comment", c) /\ LastLinefeed(heap[c].given[1].value) > 0)
        => heap[c].value
             = LastLineIndented(heap[c].given[1].value,
                                levelOf([i \in 1..Depth(c) |-> RootId],
                                        indentInitial) - 1)

\* the text t with every line that is not blank put behind n copies of unit
IndentedWith(t, unit, n) ==
  LET lines == splitLines(t)
  IN joinLines([i \in 1..Len(lines) |->
       IF Len(trim(lines[i])) > 0
       THEN [k \in 1..(Len(unit) * n) |-> unit[((k - 1) % Len(unit)) + 1]]
            \o lines[i]
       ELSE lines[i]])

\* C14: when the visitor has formatted the content of a script or style
\* element at level L, the children of the element are three text nodes: a
\* linefeed, a text the formatter returned with every non-blank line behind
\* L copies of the configured indent unit (and, in a script, the closing
\* script tags escaped), and L - 1 copies of that indent unit.
C14_EmbeddedContentIndentedByUnit ==
  LET v == lastVisit
      kids == Kids(v.node)
  IN (/\ v.path = "sensitive"
      /\ pc # "failed"
      /\ Len(kids) > 0
      /\ heap[kids[1]].syn = "prettier-newline")
       => /\ Len(kids) = 3
          /\ heap[kids[1]].value = <<LF>>
          /\ \E t \in PrettierTexts :
               heap[kids[2]].value
                 = IF heap[v.node].tagName = "script"
                   THEN escapeScriptClose(
                          IndentedWith(t, indentOf(settings), v.level))
                   ELSE IndentedWith(t, indentOf(settings), v.level)
          /\ heap[kids[3]].value
               = [k \in 1..(Len(indentOf(settings)) * (v.level - 1)) |->
                    indentOf(settings)[1]]

====
